---- MODULE Spec2Model ----
(***************************************************************************)
(* A model of main.py: the Inform7 terrain generator.                      *)
(*                                                                         *)
(* A Python str is a sequence of one-character strings, so that joining,   *)
(* replacing, title-casing and stripping are computed character by         *)
(* character as the interpreter does.  Python's None is the one-element    *)
(* sequence None, which no str equals.                                     *)
(*                                                                         *)
(* A Python float appears in two places and is written in two ways.        *)
(*                                                                         *)
(* The coordinates __values hands to noise() are IEEE 754 binary64         *)
(* numbers: width / self.width is rounded to 53 significant bits and the   *)
(* sum with 1 is rounded again, so that 2 / 3 + 1 is 1.6666666666666665    *)
(* and not the double nearest 5/3.  Such a number is the record            *)
(* [hi, lo, exp] whose value is (hi * 2^26 + lo) * 2^exp, the 53-bit       *)
(* significand being held in two parts because it does not fit an integer  *)
(* of the checker.                                                         *)
(*                                                                         *)
(* A noise value and the arithmetic translate_value does on it are the     *)
(* exact rational <<numerator, denominator>> in lowest terms.  The noise   *)
(* values of this model are multiples of 1/4 and the spans are integers,   *)
(* so every intermediate result of translate_value is a double without     *)
(* rounding; for other arguments the rational is the real-number result,   *)
(* which the double of the program approximates.                           *)
(***************************************************************************)
EXTENDS Integers, Sequences, FiniteSets, TLC

VARIABLES
    args,        \* the width and height handed to TerrainMaker(...)
    self,        \* the TerrainMaker object after __init__
    field,       \* what noise() returns for each cell, in row-major order
    call,        \* the method called on the object, "none" before the call
    err,         \* the exception the call ended with, "none" when it returned
    ret_rooms,   \* the list __rooms() returned
    ret_regions, \* the list __regions() returned
    ret_text,    \* the str __conditions(), render() or pretty_list() returned
    array,       \* pretty_list's argument array
    andor        \* pretty_list's argument andor

vars == <<args, self, field, call, err, ret_rooms, ret_regions, ret_text, array, andor>>

\* ---------------------------------------------------------------- bounds

MaxWidth == 3
MaxHeight == 3
MaxCells == 4
MaxLen == 3

\* ------------------------------------------------------------ Python str

None == <<"<None>">>

RECURSIVE join(_, _)
\* sep.join(list)
join(sep, list) ==
    IF Len(list) = 0 THEN <<>>
    ELSE IF Len(list) = 1 THEN list[1]
    ELSE list[1] \o sep \o join(sep, Tail(list))

startswith(s, prefix) ==
    /\ Len(prefix) <= Len(s)
    /\ SubSeq(s, 1, Len(prefix)) = prefix

RECURSIVE replace(_, _, _)
\* s.replace(old, new) for a non-empty old: the occurrences of old are found
\* left to right and do not overlap.
replace(s, old, new) ==
    IF Len(s) = 0 THEN <<>>
    ELSE IF startswith(s, old)
         THEN new \o replace(SubSeq(s, Len(old) + 1, Len(s)), old, new)
         ELSE <<s[1]>> \o replace(Tail(s), old, new)

lowercase == <<"a", "b", "c", "d", "e", "f", "g", "h", "i", "j", "k", "l", "m", "n", "o", "p", "q", "r", "s", "t", "u", "v", "w", "x", "y", "z">>
uppercase == <<"A", "B", "C", "D", "E", "F", "G", "H", "I", "J", "K", "L", "M", "N", "O", "P", "Q", "R", "S", "T", "U", "V", "W", "X", "Y", "Z">>

islower(c) == \E i \in 1..Len(lowercase) : lowercase[i] = c
isupper(c) == \E i \in 1..Len(uppercase) : uppercase[i] = c
upper(c) == IF islower(c) THEN uppercase[CHOOSE i \in 1..Len(lowercase) : lowercase[i] = c] ELSE c
lower(c) == IF isupper(c) THEN lowercase[CHOOSE i \in 1..Len(uppercase) : uppercase[i] = c] ELSE c
iscased(c) == islower(c) \/ isupper(c)

\* s.title(): a cased character is upper-cased when the character before it is
\* not cased, and lower-cased when it is.
title(s) ==
    [i \in 1..Len(s) |->
        IF ~iscased(s[i]) THEN s[i]
        ELSE IF i > 1 /\ iscased(s[i - 1]) THEN lower(s[i])
        ELSE upper(s[i])]

whitespace == {" ", "\n", "\t"}

RECURSIVE lstrip(_)
lstrip(s) == IF Len(s) > 0 /\ s[1] \in whitespace THEN lstrip(Tail(s)) ELSE s

RECURSIVE rstrip(_)
rstrip(s) ==
    IF Len(s) > 0 /\ s[Len(s)] \in whitespace THEN rstrip(SubSeq(s, 1, Len(s) - 1)) ELSE s

strip(s) == rstrip(lstrip(s))

\* list[i] of Python: a negative index counts from the end
inrange(list, i) == -Len(list) <= i /\ i < Len(list)
getitem(list, i) == IF i >= 0 THEN list[i + 1] ELSE list[Len(list) + i + 1]

\* ---------------------------------------------------------- Python float

RECURSIVE gcd(_, _)
gcd(a, b) == IF b = 0 THEN a ELSE gcd(b, a % b)

abs(a) == IF a < 0 THEN -a ELSE a

\* n/d in lowest terms with a positive denominator (d # 0)
rat(n, d) ==
    LET g == gcd(abs(n), abs(d))
        sgn == IF d < 0 THEN -1 ELSE 1
    IN  <<(sgn * n) \div g, (sgn * d) \div g>>

int(k) == <<k, 1>>
add(p, q) == rat(p[1] * q[2] + q[1] * p[2], p[2] * q[2])
sub(p, q) == rat(p[1] * q[2] - q[1] * p[2], p[2] * q[2])
mul(p, q) == rat(p[1] * q[1], p[2] * q[2])
div(p, q) == rat(p[1] * q[2], p[2] * q[1])

\* round(q): the nearest integer, a tie going to the even one
round(q) ==
    LET floor == q[1] \div q[2]
        rest == q[1] - floor * q[2]
    IN  IF 2 * rest < q[2] THEN floor
        ELSE IF 2 * rest > q[2] THEN floor + 1
        ELSE IF floor % 2 = 0 THEN floor
        ELSE floor + 1

max(a, b) == IF a >= b THEN a ELSE b

\* ------------------------------------------------ Python float, binary64

\* A float is [hi, lo, exp]: the number (hi * 2^26 + lo) * 2^exp, whose
\* significand of 53 bits has its upper 27 bits in hi and its lower 26 in lo.

pow2(n) == 2^n

\* Round to nearest, ties to even: hi and lo are the bits kept, above and tie
\* say whether what was cut off is more than, or exactly, half of the last bit
\* kept.
nearest(hi, lo, above, tie) ==
    IF ~(above \/ (tie /\ lo % 2 = 1)) THEN <<hi, lo>>
    ELSE IF lo + 1 < pow2(26) THEN <<hi, lo + 1>>
    ELSE <<hi + 1, 0>>

\* The float of a rounded significand m = <<hi, lo>>: a rounding that carried
\* into a 54th bit left a power of two, which is written with 53 bits again.
normal(m, exp) ==
    IF m[1] = pow2(27) THEN [hi |-> pow2(26), lo |-> 0, exp |-> exp + 1]
    ELSE [hi |-> m[1], lo |-> m[2], exp |-> exp]

RECURSIVE up(_, _)
\* The least s with a * 2^s >= b
up(a, b) == IF a >= b THEN 0 ELSE 1 + up(2 * a, b)

RECURSIVE down(_, _)
\* The greatest t with b * 2^t <= a, for a >= b
down(a, b) == IF a < 2 * b THEN 0 ELSE 1 + down(a, 2 * b)

\* The next 13 bits of r / b after the binary point, for 0 <= r < b, and what
\* is left of r after them
digit(r, b) == (r * pow2(13)) \div b
rest(r, b) == (r * pow2(13)) % b

\* a / b of two positive ints below 2^17: the quotient rounded to 53
\* significant bits.  The operands are scaled so that the quotient lies in
\* [1, 2), whose leading bit is 1; 52 more bits follow, 13 at a time, and the
\* remainder decides the rounding.
truediv(a, b) ==
    LET s == up(a, b)
        t == IF a >= b THEN down(a, b) ELSE 0
        over == b * pow2(t)
        r0 == a * pow2(s) - over
        r1 == rest(r0, over)
        r2 == rest(r1, over)
        r3 == rest(r2, over)
        r4 == rest(r3, over)
    IN  normal(nearest(pow2(26) + digit(r0, over) * pow2(13) + digit(r1, over),
                       digit(r2, over) * pow2(13) + digit(r3, over),
                       2 * r4 > over, 2 * r4 = over),
               t - s - 52)

\* x + 1 for a float 0 < x < 2.  Below 2 the last bit of the sum is worth
\* 2^-52 and the s bits of x below that are rounded away; from 2 on it is
\* worth 2^-51 and the last bit of the sum is rounded away.
plus_one(x) ==
    LET s == -52 - x.exp
        u == s - 26
    IN  IF s = 0
        THEN normal(nearest((x.hi + pow2(26)) \div 2,
                            (x.lo \div 2) + ((x.hi + pow2(26)) % 2) * pow2(25),
                            FALSE, x.lo % 2 = 1),
                    -51)
        ELSE IF s <= 26
        THEN normal(nearest(pow2(26) + (x.hi \div pow2(s)),
                            (x.lo \div pow2(s)) + (x.hi % pow2(s)) * pow2(26 - s),
                            x.lo % pow2(s) > pow2(s - 1), x.lo % pow2(s) = pow2(s - 1)),
                    -52)
        ELSE IF s <= 53
        THEN normal(nearest(pow2(26), x.hi \div pow2(u),
                            \/ x.hi % pow2(u) > pow2(u - 1)
                            \/ x.hi % pow2(u) = pow2(u - 1) /\ x.lo > 0,
                            x.hi % pow2(u) = pow2(u - 1) /\ x.lo = 0),
                    -52)
        ELSE [hi |-> pow2(26), lo |-> 0, exp |-> -52]

\* -------------------------------------------------------- translate_value

translate_value_unscaled(value, from_min, from_max, to_min, to_max) ==
    LET from_span == sub(from_max, from_min)
        ret == div(sub(value, from_min), from_span)
    IN  add(to_min, ret)

translate_value(value, from_min, from_max, to_min, to_max) ==
    LET from_span == sub(from_max, from_min)
        to_span == sub(to_max, to_min)
        ret == div(sub(value, from_min), from_span)
    IN  add(to_min, mul(ret, to_span))

\* ------------------------------------------------------------ pretty_list

pretty_list(array_, andor_) ==
    LET length == Len(array_)
    IN  IF length = 0 THEN <<>>
        ELSE IF length = 1 THEN array_[1]
        ELSE IF length = 2 THEN join(<<" ">> \o andor_ \o <<" ">>, array_)
        ELSE LET temp == SubSeq(array_, 1, length - 1)
                             \o <<andor_ \o <<" ">> \o array_[length]>>
                 out == join(<<",", " ">>, temp)
             IN  replace(out, <<",", " ">> \o andor_, <<" ">> \o andor_)

\* -------------------------------------------------------------- num2words

\* num2words(n) of the num2words package, for the numbers a grid of the model's
\* size can ask for
words(n) ==
    << <<"o", "n", "e">>, <<"t", "w", "o">>, <<"t", "h", "r", "e", "e">>, <<"f", "o", "u", "r">>, <<"f", "i", "v", "e">>, <<"s", "i", "x">>, <<"s", "e", "v", "e", "n">>,
       <<"e", "i", "g", "h", "t">>, <<"n", "i", "n", "e">>, <<"t", "e", "n">>, <<"e", "l", "e", "v", "e", "n">>, <<"t", "w", "e", "l", "v", "e">>, <<"t", "h", "i", "r", "t", "e", "e", "n">>,
       <<"f", "o", "u", "r", "t", "e", "e", "n">>, <<"f", "i", "f", "t", "e", "e", "n">>, <<"s", "i", "x", "t", "e", "e", "n">>, <<"s", "e", "v", "e", "n", "t", "e", "e", "n">>, <<"e", "i", "g", "h", "t", "e", "e", "n">>,
       <<"n", "i", "n", "e", "t", "e", "e", "n">>, <<"t", "w", "e", "n", "t", "y">> >>[n]

\* ------------------------------------------------------------------- Room

Room(name, value, condition, position, description, printed_name) ==
    [name |-> name, value |-> value, condition |-> condition,
     position |-> position, description |-> description,
     printed_name |-> printed_name,
     north |-> None, south |-> None, east |-> None, west |-> None]

\* Python's truth of an Optional[str]: None and "" are false
truthy(s) == s # None /\ Len(s) > 0

Room_render(room) ==
    LET north == IF truthy(room.north) THEN <<"n", "o", "r", "t", "h", " ", "o", "f", " ">> \o room.north ELSE None
        south == IF truthy(room.south) THEN <<"s", "o", "u", "t", "h", " ", "o", "f", " ">> \o room.south ELSE None
        east == IF truthy(room.east) THEN <<"e", "a", "s", "t", " ", "o", "f", " ">> \o room.east ELSE None
        west == IF truthy(room.west) THEN <<"w", "e", "s", "t", " ", "o", "f", " ">> \o room.west ELSE None
        neighbors == SelectSeq(<<north, south, east, west>>, truthy)
        name == room.name \o <<" ", "i", "s", " ", "a", " ", "r", "o", "o", "m", ".">>
        condition == <<"I", "t", " ", "i", "s", " ">> \o room.condition \o <<".">>
        description == <<"T", "h", "e", " ", "d", "e", "s", "c", "r", "i", "p", "t", "i", "o", "n", " ", "o", "f", " ">> \o room.name \o <<" ", "i", "s", " ", "\"", "[">>
                           \o room.description \o <<"]", "\"", ".">>
        printed == <<"T", "h", "e", " ", "p", "r", "i", "n", "t", "e", "d", " ", "n", "a", "m", "e", " ", "i", "s", " ", "\"">> \o room.printed_name \o <<"\"", ".">>
        directions == IF Len(neighbors) > 0
                      THEN room.name \o <<" ", "i", "s", " ">> \o pretty_list(neighbors, <<"a", "n", "d">>) \o <<".">>
                      ELSE <<>>
    IN  join(<<" ">>, <<name, condition, description, printed, directions>>)

\* ----------------------------------------------------------------- Region

Region(name, condition, rooms) ==
    [name |-> name, condition |-> condition, rooms |-> rooms]

Region_render(region) ==
    LET name == region.name \o <<" ", "i", "s", " ", "a", " ", "r", "e", "g", "i", "o", "n", ".">>
        rooms == pretty_list(region.rooms, <<"a", "n", "d">>)
        isare == IF Len(region.rooms) = 1 THEN <<"i", "s">> ELSE <<"a", "r", "e">>
    IN  join(<<" ">>, <<name, rooms, isare, <<"i", "n", " ">> \o region.name \o <<".">>>>)

\* ----------------------------------------------------------- TerrainMaker

TerrainMaker(width, height, name, description, initial, region, printed_name, conditions) ==
    [width |-> max(1, width), height |-> max(1, height), name |-> name,
     description |-> description, initial |-> initial, region |-> region,
     printed_name |-> printed_name, conditions |-> conditions]

\* list(conditions.keys()) of the ordered mapping <<key, text>>, ...
keys(conditions) == [i \in 1..Len(conditions) |-> conditions[i][1]]

\* conditions.get(key)
get(conditions, key) ==
    IF \E i \in 1..Len(conditions) : conditions[i][1] = key
    THEN conditions[CHOOSE i \in 1..Len(conditions) : conditions[i][1] = key][2]
    ELSE None

\* The coordinates __values samples for the loop variables width and height:
\* width / self.width + 1 and height / self.height + 1, each a float division
\* followed by a float addition
coordinates(self_, width, height) ==
    <<plus_one(truediv(width, self_.width)), plus_one(truediv(height, self_.height))>>

\* noise(horizontal, vertical): the octave sum of the perlin_noise package plus
\* 0.5, a fixed function of the seed and the coordinates
noise(field_, horizontal, vertical) == field_[<<horizontal, vertical>>]

\* The loop variables width and height of the index-th iteration of the two
\* nested loops, height outer and width inner
width_of(self_, index) == ((index - 1) % self_.width) + 1
height_of(self_, index) == ((index - 1) \div self_.width) + 1

__values(self_, field_) ==
    [index \in 1..(self_.width * self_.height) |->
        LET at == coordinates(self_, width_of(self_, index), height_of(self_, index))
        IN  noise(field_, at[1], at[2])]

\* The position __rooms gives the Room of the loop variables width and height
position_of(width, height) == <<width - 1, height - 1>>

\* The name __rooms gives the Room created index-th
name_ascending(self_, index) ==
    title(self_.name \o <<" ">> \o words(index))

name_of(self_, index) ==
    LET count == (self_.width * self_.height) + 1
    IN  title(self_.name \o <<" ">> \o words(count - index))

\* The value of the Room created index-th
value_of(self_, values, index) ==
    translate_value(values[index], int(0), int(1), int(0),
                    int(Len(self_.conditions) - 1))

\* keys[round(value)] raises IndexError
raises(self_, values, index) ==
    ~inrange(keys(self_.conditions), round(value_of(self_, values, index)))

\* The Room the first loop appends in its index-th iteration
created(self_, values, index) ==
    LET value == value_of(self_, values, index)
    IN  Room(name_of(self_, index),
             value,
             getitem(keys(self_.conditions), round(value)),
             position_of(width_of(self_, index), height_of(self_, index)),
             self_.description,
             self_.printed_name)

\* [r for r in out if r.position == position]
at_position(out, position) == SelectSeq(out, LAMBDA r : r.position = position)

\* list.pop().name if len(list) else None
pop_name(list) == IF Len(list) > 0 THEN list[Len(list)].name ELSE None

\* The body of the second loop, for one room of out
wire_one_sided(self_, out, room) ==
    LET pos_x == room.position[1]
        pos_y == room.position[2]
        north == IF pos_y < self_.height
                 THEN pop_name(at_position(out, <<pos_x, pos_y + 1>>)) ELSE room.north
        west == IF pos_x < self_.width
                THEN pop_name(at_position(out, <<pos_x + 1, pos_y>>)) ELSE room.west
    IN  [room EXCEPT !.north = north, !.west = west]

wire_skipping_first(self_, out, room) ==
    LET pos_x == room.position[1]
        pos_y == room.position[2]
        north == IF pos_y < self_.height
                 THEN pop_name(at_position(out, <<pos_x, pos_y + 1>>)) ELSE room.north
        south == IF pos_y > 0
                 THEN pop_name(at_position(out, <<pos_x, pos_y - 1>>)) ELSE room.south
        west == IF pos_x < self_.width
                THEN pop_name(at_position(out, <<pos_x + 1, pos_y>>)) ELSE room.west
        east == IF pos_x > 1
                THEN pop_name(at_position(out, <<pos_x - 1, pos_y>>)) ELSE room.east
    IN  [room EXCEPT !.north = north, !.south = south, !.west = west, !.east = east]

wire(self_, out, room) ==
    LET pos_x == room.position[1]
        pos_y == room.position[2]
        north == IF pos_y < self_.height
                 THEN pop_name(at_position(out, <<pos_x, pos_y + 1>>)) ELSE room.north
        south == IF pos_y > 0
                 THEN pop_name(at_position(out, <<pos_x, pos_y - 1>>)) ELSE room.south
        west == IF pos_x < self_.width
                THEN pop_name(at_position(out, <<pos_x + 1, pos_y>>)) ELSE room.west
        east == IF pos_x > 0
                THEN pop_name(at_position(out, <<pos_x - 1, pos_y>>)) ELSE room.east
    IN  [room EXCEPT !.north = north, !.south = south, !.west = west, !.east = east]

\* The list out after the first loop of __rooms
first_loop(self_, values) ==
    [index \in 1..(self_.width * self_.height) |-> created(self_, values, index)]

\* The list out after the second loop of __rooms
second_loop(self_, out) == [index \in 1..Len(out) |-> wire(self_, out, out[index])]

\* The two loops of __rooms on the list values: the exception the first loop
\* ends with, or the list returned
loops_guarded(self_, values) ==
    IF Len(self_.conditions) = 0
    THEN [err |-> "none", out |-> <<>>]
    ELSE IF \E index \in 1..Len(values) : raises(self_, values, index)
    THEN [err |-> "IndexError", out |-> <<>>]
    ELSE [err |-> "none", out |-> second_loop(self_, first_loop(self_, values))]

loops(self_, values) ==
    IF \E index \in 1..Len(values) : raises(self_, values, index)
    THEN [err |-> "IndexError", out |-> <<>>]
    ELSE [err |-> "none", out |-> second_loop(self_, first_loop(self_, values))]

\* __rooms(): [err |-> the exception or "none", out |-> the list returned]
__rooms(self_, field_) == loops(self_, __values(self_, field_))

\* The Region __regions builds for a key, empty or not
region_of(self_, rooms, key) ==
    Region(title(<<"T", "h", "e", " ">> \o key \o <<" ">> \o self_.region),
           key,
           LET mine == SelectSeq(rooms, LAMBDA r : r.condition = key)
           IN  [i \in 1..Len(mine) |-> mine[i].name])

\* The loop of __regions, made being what each of its __rooms() calls does: with
\* no key there is no call
group_with_empty(self_, made) ==
    IF Len(self_.conditions) > 0 /\ made.err # "none"
    THEN [err |-> made.err, out |-> <<>>]
    ELSE [err |-> "none",
          out |-> [i \in 1..Len(self_.conditions) |->
                      region_of(self_, made.out, keys(self_.conditions)[i])]]

group(self_, made) ==
    IF Len(self_.conditions) > 0 /\ made.err # "none"
    THEN [err |-> made.err, out |-> <<>>]
    ELSE [err |-> "none",
          out |-> SelectSeq([i \in 1..Len(self_.conditions) |->
                                region_of(self_, made.out, keys(self_.conditions)[i])],
                            LAMBDA region : Len(region.rooms) > 0)]

__regions(self_, field_) == group(self_, __rooms(self_, field_))

\* The list conditions of __conditions: the keys that have a Region
conditions_all(self_, regions) == keys(self_.conditions)

conditions_of(self_, regions) ==
    SelectSeq(keys(self_.conditions),
              LAMBDA c : \E i \in 1..Len(regions) : regions[i].condition = c)

\* The lines of __conditions for its list conditions
lines(self_, conditions) ==
    LET intro == IF Len(conditions) > 0
                 THEN << join(<<" ">>,
                              << <<"A", " ", "r", "o", "o", "m", " ", "c", "a", "n", " ", "b", "e", " ">> \o pretty_list(conditions, <<"o", "r">>) \o <<".">>,
                                 <<"A", " ", "r", "o", "o", "m", " ", "i", "s", " ", "u", "s", "u", "a", "l", "l", "y", " ">> \o conditions[1] \o <<".">> >>),
                         <<>> >>
                 ELSE <<>>
        say == << <<"T", "o", " ", "s", "a", "y", " ">> \o self_.description \o <<":">>,
                  <<"\t", "s", "a", "y", " ", "\"">> \o self_.initial \o <<" ", "[", "r", "u", "n", " ", "p", "a", "r", "a", "g", "r", "a", "p", "h", " ", "o", "n", "]", "\"", ";">> >>
        cases == [index \in 1..Len(conditions) |->
                     <<"\t", "i", "f", " ", "t", "h", "e", " ", "l", "o", "c", "a", "t", "i", "o", "n", " ", "i", "s", " ">> \o conditions[index] \o <<",", " ", "s", "a", "y", " ", "\"">>
                         \o get(self_.conditions, conditions[index]) \o <<"\"">>
                         \o (IF index = Len(conditions) THEN <<".">> ELSE <<";">>)]
    IN  strip(join(<<"\n">>, intro \o say \o cases))

\* __conditions() from what its __regions() call does
declare(self_, grouped) ==
    IF grouped.err # "none"
    THEN [err |-> grouped.err, out |-> <<>>]
    ELSE [err |-> "none", out |-> lines(self_, conditions_of(self_, grouped.out))]

__conditions(self_, field_) == declare(self_, __regions(self_, field_))

\* render() from what its __conditions(), __rooms() and __regions() calls do, in
\* the order render makes them
document(head, made, grouped) ==
    IF head.err # "none" THEN [err |-> head.err, out |-> <<>>]
    ELSE IF made.err # "none" THEN [err |-> made.err, out |-> <<>>]
    ELSE IF grouped.err # "none" THEN [err |-> grouped.err, out |-> <<>>]
    ELSE [err |-> "none",
          out |-> join(<<"\n", "\n">>,
                       <<head.out>>
                           \o [i \in 1..Len(made.out) |-> Room_render(made.out[i])]
                           \o [i \in 1..Len(grouped.out) |-> Region_render(grouped.out[i])])]

render(self_, field_) ==
    document(__conditions(self_, field_), __rooms(self_, field_), __regions(self_, field_))

\* ----------------------------------------------------------- the inputs

\* The widths and heights asked for: negative, zero and up to max
Dims(most) == {-1, 0} \cup (1..most)

\* The scalars noise() returns: below and inside [0, 1], the two ends of the
\* range and a tie of round(), and above 1
NoiseVals == {rat(-3, 4), rat(1, 4), rat(1, 2), int(1), rat(3, 2)}

\* The ordered category mappings: none, one, two and three categories
ConditionSets ==
    { <<>>,
      << <<<<"f", "l", "a", "t">>, <<"F", "l", "a", "t", ".">>>> >>,
      << <<<<"f", "l", "a", "t">>, <<"F", "l", "a", "t", ".">>>>, <<<<"h", "i", "l", "l", "y">>, <<"H", "i", "l", "l", "s", ".">>>> >>,
      << <<<<"f", "l", "a", "t">>, <<"F", "l", "a", "t", ".">>>>, <<<<"o", "r", "e">>, <<"O", "r", "e", ".">>>>, <<<<"w", "e", "t">>, <<"W", "e", "t", ".">>>> >> }

\* The coordinates the grid of self_ samples
Coords(self_) ==
    {coordinates(self_, width, height) : width \in 1..self_.width, height \in 1..self_.height}

\* The items and conjunctions pretty_list is given
Items == {<<"A">>, <<"B">>, <<"C">>, <<"a", "n", "d", "y">>}
Conjunctions == {<<"a", "n", "d">>, <<"o", "r">>}
Arrays == UNION {[1..n -> Items] : n \in 0..MaxLen}

\* -------------------------------------------------------- the state machine

\* TerrainMaker(width, height, seed, ...): the seed fixes the noise field
Init ==
    /\ \E width \in Dims(MaxWidth), height \in Dims(MaxHeight), conditions \in ConditionSets :
        /\ max(1, width) * max(1, height) <= MaxCells
        /\ args = [width |-> width, height |-> height]
        /\ self = TerrainMaker(width, height, <<"d", "e", "n">>, <<"d", "e", "n", "-", "t", "e", "x", "t">>, <<"S", "a", "n", "d", ".">>,
                               <<"w", "i", "l", "d", "s">>, <<"M", "a", "r", "s">>, conditions)
    /\ field \in [Coords(self) -> NoiseVals]
    /\ call = "none"
    /\ err = "none"
    /\ ret_rooms = <<>>
    /\ ret_regions = <<>>
    /\ ret_text = <<>>
    /\ array = <<>>
    /\ andor = <<>>

\* A call ended: its exception and its return value
Returned(result, raised, returned) ==
    /\ raised = result.err
    /\ returned = result.out

CallRooms ==
    /\ call = "none"
    /\ Returned(__rooms(self, field), err', ret_rooms')
    /\ call' = "rooms"
    /\ UNCHANGED <<args, self, field, ret_regions, ret_text, array, andor>>

CallRegions ==
    /\ call = "none"
    /\ Returned(__regions(self, field), err', ret_regions')
    /\ call' = "regions"
    /\ UNCHANGED <<args, self, field, ret_rooms, ret_text, array, andor>>

CallConditions ==
    /\ call = "none"
    /\ Returned(__conditions(self, field), err', ret_text')
    /\ call' = "conditions"
    /\ UNCHANGED <<args, self, field, ret_rooms, ret_regions, array, andor>>

CallRender ==
    /\ call = "none"
    /\ Returned(render(self, field), err', ret_text')
    /\ call' = "render"
    /\ UNCHANGED <<args, self, field, ret_rooms, ret_regions, array, andor>>

Next == CallRooms \/ CallRegions \/ CallConditions \/ CallRender

Spec == Init /\ [][Next]_vars

\* pretty_list(array, andor) on its own
InitPretty ==
    /\ array \in Arrays
    /\ andor \in Conjunctions
    /\ call = "none"
    /\ err = "none"
    /\ args = <<>>
    /\ self = <<>>
    /\ field = <<>>
    /\ ret_rooms = <<>>
    /\ ret_regions = <<>>
    /\ ret_text = <<>>

CallPrettyList ==
    /\ call = "none"
    /\ ret_text' = pretty_list(array, andor)
    /\ call' = "pretty_list"
    /\ UNCHANGED <<args, self, field, err, ret_rooms, ret_regions, array, andor>>

NextPretty == CallPrettyList

SpecPretty == InitPretty /\ [][NextPretty]_vars

\* ------------------------------------------------------------ the claims

W == self.width
H == self.height
N == Len(self.conditions)

\* The call of __rooms returned the wired list
RoomsReturned == call = "rooms" /\ err = "none"

\* The index in row-major order, from 1, of the cell at column col and row row
cell(col, row) == row * W + col + 1

\* text up to its first line break
FirstLine(text) ==
    LET breaks == {i \in 1..Len(text) : text[i] = "\n"}
    IN  IF breaks = {} THEN text
        ELSE SubSeq(text, 1, (CHOOSE i \in breaks : \A j \in breaks : i <= j) - 1)

\* part occurs in text
Contains(text, part) ==
    \E i \in 1..(Len(text) - Len(part) + 1) : SubSeq(text, i, i + Len(part) - 1) = part

\* The rendered room text states the direction phrase as one of its direction
\* statements
States(text, phrase) ==
    \E stop \in {<<".">>, <<",">>, <<" ", "a", "n", "d">>} : Contains(text, <<" ">> \o phrase \o stop)

\* C1: for every requested width and height and every non-empty category
\* mapping, __rooms returns exactly W*H Rooms, W = max(1, width) and
\* H = max(1, height), in row-major order, their positions the cells of the
\* rectangle, each once.
C1_RoomsCoverGrid ==
    (call = "rooms" /\ N >= 1) =>
        /\ err = "none"
        /\ W = max(1, args.width) /\ H = max(1, args.height)
        /\ Len(ret_rooms) = W * H
        /\ \A row \in 0..(H - 1), col \in 0..(W - 1) :
               ret_rooms[cell(col, row)].position = <<col, row>>
        /\ \A i, j \in 1..Len(ret_rooms) :
               i # j => ret_rooms[i].position # ret_rooms[j].position

\* C2: after the wiring pass, R.north names S exactly when S.south names R, and
\* R.east names S exactly when S.west names R; the rendered direction
\* statements come in the same pairs.
C2_AdjacencySymmetric ==
    RoomsReturned =>
        LET text == [i \in 1..Len(ret_rooms) |-> Room_render(ret_rooms[i])]
        IN  \A i, j \in 1..Len(ret_rooms) :
                LET R == ret_rooms[i]
                    S == ret_rooms[j]
                IN  /\ R.north = S.name <=> S.south = R.name
                    /\ R.east = S.name <=> S.west = R.name
                    /\ States(text[i], <<"n", "o", "r", "t", "h", " ", "o", "f", " ">> \o S.name)
                           <=> States(text[j], <<"s", "o", "u", "t", "h", " ", "o", "f", " ">> \o R.name)
                    /\ States(text[i], <<"e", "a", "s", "t", " ", "o", "f", " ">> \o S.name)
                           <=> States(text[j], <<"w", "e", "s", "t", " ", "o", "f", " ">> \o R.name)

\* C2 happens: a grid of two rows and two columns is wired, and a room has a
\* north and an east reference
C2_Witness ==
    /\ RoomsReturned
    /\ W = 2 /\ H = 2
    /\ \E i, j, k \in 1..Len(ret_rooms) :
           /\ ret_rooms[i].north = ret_rooms[j].name
           /\ ret_rooms[i].east = ret_rooms[k].name
           /\ States(Room_render(ret_rooms[i]), <<"n", "o", "r", "t", "h", " ", "o", "f", " ">> \o ret_rooms[j].name)

\* C3: pretty_list gives "" for no item, the item for one, "X andor Y" for two,
\* and for three or more the items in order separated by ", " with the
\* conjunction before the last item and the comma before it kept.
C3_PrettyListRule ==
    call = "pretty_list" =>
        ret_text =
            IF Len(array) = 0 THEN <<>>
            ELSE IF Len(array) = 1 THEN array[1]
            ELSE IF Len(array) = 2 THEN array[1] \o <<" ">> \o andor \o <<" ">> \o array[2]
            ELSE join(<<",", " ">>, SubSeq(array, 1, Len(array) - 1))
                     \o <<",", " ">> \o andor \o <<" ">> \o array[Len(array)]

\* The configured category symbols that a room of the list rooms has, in
\* configured order
Assigned(rooms) ==
    SelectSeq(keys(self.conditions),
              LAMBDA c : \E i \in 1..Len(rooms) : rooms[i].condition = c)

\* The category declaration for the list of symbols listed
Declaration(listed) ==
    <<"A", " ", "r", "o", "o", "m", " ", "c", "a", "n", " ", "b", "e", " ">> \o pretty_list(listed, <<"o", "r">>) \o <<".", " ", "A", " ", "r", "o", "o", "m", " ", "i", "s", " ", "u", "s", "u", "a", "l", "l", "y", " ">>
        \o listed[1] \o <<".">>

\* C4 as stated: the first line of render()'s output declares all the
\* configured category symbols, and the first configured one as the usual one,
\* whatever the noise assigned.
C4_DeclaresAllConfigured ==
    (call = "render" /\ err = "none" /\ N >= 1) =>
        FirstLine(ret_text) = Declaration(keys(self.conditions))

\* C4 as amended: render() raises IndexError and returns nothing, or the first
\* line of its output declares the configured category symbols that at least
\* one Room has, in configured order, and the first of these as the usual one.
C4_DeclaresAssigned ==
    (call = "render" /\ N >= 1) =>
        LET made == __rooms(self, field)
            assigned == Assigned(made.out)
        IN  IF err = "none"
            THEN /\ Len(assigned) >= 1
                 /\ FirstLine(ret_text) = Declaration(assigned)
            ELSE err = "IndexError" /\ ret_text = <<>> /\ made.err = "IndexError"

\* C4 happens: two rooms in a row, flat and hilly configured, both rooms flat,
\* and the document declares flat alone
C4_Witness ==
    /\ call = "render" /\ err = "none"
    /\ W = 2 /\ H = 1
    /\ keys(self.conditions) = <<<<"f", "l", "a", "t">>, <<"h", "i", "l", "l", "y">>>>
    /\ FirstLine(ret_text) = <<"A", " ", "r", "o", "o", "m", " ", "c", "a", "n", " ", "b", "e", " ", "f", "l", "a", "t", ".", " ", "A", " ", "r", "o", "o", "m", " ", "i", "s", " ", "u", "s", "u", "a", "l", "l", "y", " ", "f", "l", "a", "t", ".">>

\* C5 as stated: the Room created i-th, at position (col, row) with
\* i = row*W + col + 1, is named with the word for i.
C5_NamedAscending ==
    RoomsReturned =>
        \A row \in 0..(H - 1), col \in 0..(W - 1) :
            ret_rooms[cell(col, row)].name
                = title(self.name \o <<" ">> \o words(cell(col, row)))

\* C5 as amended: the Room created i-th is named with the word for
\* W*H + 1 - i, title-cased after the prefix: the Room at (0, 0) carries the
\* word for W*H and the last Room the word for 1; two rooms in a row are
\* "Den Two" at (0, 0) and "Den One" at (1, 0).
C5_NamedDescending ==
    RoomsReturned =>
        /\ \A row \in 0..(H - 1), col \in 0..(W - 1) :
               ret_rooms[cell(col, row)].name
                   = title(self.name \o <<" ">> \o words(W * H + 1 - cell(col, row)))
        /\ ret_rooms[1].position = <<0, 0>>
        /\ ret_rooms[Len(ret_rooms)].name = <<"D", "e", "n", " ", "O", "n", "e">>
        /\ (W = 2 /\ H = 1) =>
               ret_rooms[1].name = <<"D", "e", "n", " ", "T", "w", "o">> /\ ret_rooms[2].position = <<1, 0>>
        /\ (W * H = 4) => ret_rooms[1].name = <<"D", "e", "n", " ", "F", "o", "u", "r">>

\* C5 happens: two rooms in a row are named
C5_Witness ==
    /\ RoomsReturned
    /\ W = 2 /\ H = 1
    /\ ret_rooms[1].name = <<"D", "e", "n", " ", "T", "w", "o">>
    /\ ret_rooms[2].name = <<"D", "e", "n", " ", "O", "n", "e">>

\* The names of the rooms of the list rooms that have the category key, in order
Members(rooms, key) ==
    LET mine == SelectSeq(rooms, LAMBDA r : r.condition = key)
    IN  [i \in 1..Len(mine) |-> mine[i].name]

\* C6: __regions returns one Region for each configured category that has a
\* Room and none for a category without, in configured order, each listing the
\* names of its Rooms in creation order; every Room is in exactly one Region.
C6_RegionsPartitionRooms ==
    call = "regions" =>
        LET rooms == __rooms(self, field).out
            assigned == Assigned(rooms)
        IN  /\ Len(ret_regions) = Len(assigned)
            /\ \A j \in 1..Len(ret_regions) :
                   /\ ret_regions[j].condition = assigned[j]
                   /\ ret_regions[j].rooms = Members(rooms, assigned[j])
                   /\ Len(ret_regions[j].rooms) >= 1
            /\ \A i \in 1..Len(rooms) :
                   Cardinality({<<j, k>> \in (1..Len(ret_regions)) \X (1..(W * H)) :
                                   /\ k <= Len(ret_regions[j].rooms)
                                   /\ ret_regions[j].rooms[k] = rooms[i].name}) = 1

\* C6 happens: three categories are configured, the four rooms have the first
\* and the last, and two Regions are returned
C6_Witness ==
    /\ call = "regions" /\ err = "none"
    /\ N = 3 /\ W * H = 4
    /\ Len(ret_regions) = 2
    /\ ret_regions[1].condition = <<"f", "l", "a", "t">>
    /\ ret_regions[2].condition = <<"w", "e", "t">>
    /\ Len(ret_regions[2].rooms) = 2

\* C7: with no category configured render() ends in an error and returns no
\* text.
C7_EmptyMappingRejected ==
    (call = "render" /\ N = 0) => (err # "none" /\ ret_text = <<>>)

\* C7 happens: render() was called with no category configured and raised
C7_Witness ==
    call = "render" /\ N = 0 /\ err = "IndexError" /\ W * H > 1

\* C8: with one category every noise value maps to 0 and selects index 0, every
\* Room gets the category, one Region holds all the Rooms, and no call raises.
C8_SingleCategory ==
    N = 1 =>
        /\ \A at \in DOMAIN field :
               LET value == translate_value(field[at], int(0), int(1), int(0), int(N - 1))
               IN  value = int(0) /\ round(value) = 0
        /\ call # "none" => err = "none"
        /\ call = "rooms" =>
               /\ Len(ret_rooms) = W * H
               /\ \A i \in 1..Len(ret_rooms) :
                      /\ ret_rooms[i].value = int(0)
                      /\ ret_rooms[i].condition = self.conditions[1][1]
        /\ call = "regions" =>
               /\ Len(ret_regions) = 1
               /\ ret_regions[1].condition = self.conditions[1][1]
               /\ Len(ret_regions[1].rooms) = W * H

\* C8 happens: one category, noise below 0 and above 1, and one Region with
\* all the rooms is returned
C8_Witness ==
    /\ call = "regions" /\ err = "none"
    /\ N = 1 /\ W * H = 3
    /\ \E at \in DOMAIN field : field[at] = rat(3, 2)
    /\ \E at \in DOMAIN field : field[at] = rat(-3, 4)
    /\ Len(ret_regions) = 1 /\ Len(ret_regions[1].rooms) = 3

\* C9: for every category count n >= 1 and every scalar of the noise field the
\* index round(translate_value(noise, 0, 1, 0, n - 1)) is in 0..n-1, so __rooms
\* never raises and every Room has the symbol at that position of the list.
C9_IndexInRange ==
    (call = "rooms" /\ N >= 1) =>
        /\ err = "none"
        /\ \A i \in 1..Len(ret_rooms) :
               /\ 0 <= round(ret_rooms[i].value)
               /\ round(ret_rooms[i].value) <= N - 1
               /\ ret_rooms[i].condition = keys(self.conditions)[round(ret_rooms[i].value) + 1]

\* The name of the room at column col and row row
NameAt(col, row) == ret_rooms[cell(col, row)].name

\* C10: after wiring, the Room at (x, y) has a north reference exactly when
\* y+1 < H, naming the Room at (x, y+1); a south reference exactly when y > 0,
\* naming the Room at (x, y-1); one horizontal reference exactly when x+1 < W,
\* naming the Room at (x+1, y), and the other exactly when x > 0, naming the
\* Room at (x-1, y).  Every reference names one Room, a step away, and the
\* Room of a grid of one cell has no reference and renders no direction.
C10_ReferencesFollowGrid ==
    RoomsReturned =>
        /\ \A y \in 0..(H - 1), x \in 0..(W - 1) :
               LET room == ret_rooms[cell(x, y)]
               IN  /\ room.north # None <=> y + 1 < H
                   /\ y + 1 < H => room.north = NameAt(x, y + 1)
                   /\ room.south # None <=> y > 0
                   /\ y > 0 => room.south = NameAt(x, y - 1)
                   /\ room.west # None <=> x + 1 < W
                   /\ x + 1 < W => room.west = NameAt(x + 1, y)
                   /\ room.east # None <=> x > 0
                   /\ x > 0 => room.east = NameAt(x - 1, y)
        /\ \A i \in 1..Len(ret_rooms) :
               \A ref \in {ret_rooms[i].north, ret_rooms[i].south,
                           ret_rooms[i].east, ret_rooms[i].west} \ {None} :
                   /\ Cardinality({j \in 1..Len(ret_rooms) : ret_rooms[j].name = ref}) = 1
                   /\ \A j \in 1..Len(ret_rooms) :
                          ret_rooms[j].name = ref =>
                              abs(ret_rooms[j].position[1] - ret_rooms[i].position[1])
                                  + abs(ret_rooms[j].position[2] - ret_rooms[i].position[2]) = 1
        /\ (W = 1 /\ H = 1) =>
               /\ \A dir \in {<<"n", "o", "r", "t", "h", " ", "o", "f">>, <<"s", "o", "u", "t", "h", " ", "o", "f">>, <<"e", "a", "s", "t", " ", "o", "f">>, <<"w", "e", "s", "t", " ", "o", "f">>} :
                      ~Contains(Room_render(ret_rooms[1]), dir)
               /\ Room_render(ret_rooms[1])
                      = ret_rooms[1].name \o <<" ", "i", "s", " ", "a", " ", "r", "o", "o", "m", ".", " ", "I", "t", " ", "i", "s", " ">> \o ret_rooms[1].condition
                            \o <<".", " ", "T", "h", "e", " ", "d", "e", "s", "c", "r", "i", "p", "t", "i", "o", "n", " ", "o", "f", " ">> \o ret_rooms[1].name
                            \o <<" ", "i", "s", " ", "\"", "[", "d", "e", "n", "-", "t", "e", "x", "t", "]", "\"", ".", " ", "T", "h", "e", " ", "p", "r", "i", "n", "t", "e", "d", " ", "n", "a", "m", "e", " ", "i", "s", " ", "\"", "M", "a", "r", "s", "\"", ".", " ">>

\* C10 happens: in a row of three rooms the middle one has both horizontal
\* references and no vertical one
C10_Witness ==
    /\ RoomsReturned
    /\ W = 3 /\ H = 1
    /\ ret_rooms[2].west = ret_rooms[3].name
    /\ ret_rooms[2].east = ret_rooms[1].name
    /\ ret_rooms[2].north = None /\ ret_rooms[2].south = None

====
